---- MODULE Spec2Model ----
(***************************************************************************)
(* The promo-lead endpoint of the Best Way Services landing page: the      *)
(* in-memory sliding-window rate limiter and the lead intake handler, in   *)
(* the four variants the repository carries:                               *)
(*   "server"    src/server.js              standalone, no CRM             *)
(*   "serverCrm" src/unnamed/part_001       standalone, HubSpot upsert     *)
(*   "fn"        src/netlify/functions/promo-lead.js   function, no CRM,   *)
(*                                          no name field                  *)
(*   "fnCrm"     src/unnamed/part_000       function, HubSpot upsert       *)
(* Several requests may be in flight in the one process; a handler runs    *)
(* without interruption between two awaits (body read, CRM replies).       *)
(* Date.now() is modelled as a non-decreasing clock in milliseconds.       *)
(* A run draws its requests from one of three input universes (scene):     *)
(*   "intake"   one client, one request at a time, every body and method,  *)
(*              every CRM outcome;                                         *)
(*   "clients"  two clients, one request at a time, valid leads;           *)
(*   "overlap"  one client, two requests in flight, valid leads.           *)
(***************************************************************************)
EXTENDS Integers, Sequences, FiniteSets, TLC

VARIABLES
    scene,                 \* the input universe of the run
    variant,               \* which of the four programs runs
    HUBSPOT_ACCESS_TOKEN,  \* TRUE when the environment sets a token
    now,                   \* Date.now()
    requestBuckets,        \* the Map: client ip -> timestamps
    req,                   \* the exchanges in flight or just answered
    history                \* per client, every rate check: its time and result

vars == <<scene, variant, HUBSPOT_ACCESS_TOKEN, now, requestBuckets, req, history>>

(* ---------------------------- bounds ----------------------------------- *)
MaxChecks == 7
MaxSteps == 2
SmallBytes == 64

(* ------------------------- program constants --------------------------- *)
MAX_BODY_SIZE == 16 * 1024
RATE_WINDOW_MS == 15 * 60 * 1000
RATE_MAX_REQUESTS == 5

Variants == {"server", "serverCrm", "fn", "fnCrm"}
ServerVariants == {"server", "serverCrm"}
CrmVariants == {"serverCrm", "fnCrm"}
NameVariants == {"server", "serverCrm", "fnCrm"}

Scenes == {"intake", "clients", "overlap"}
Slots == {"a", "b"}
ClientIps == {"10.0.0.1", "unknown"}
Methods == {"POST", "OPTIONS", "GET"}
ClockStep == RATE_WINDOW_MS \div 2
MaxNow == MaxSteps * ClockStep

(* --------------------------- strings ----------------------------------- *)
(* A JSON field value: a string (a sequence of one-character strings) or   *)
(* anything else (missing, number, null, ...).                             *)
Str(s) == [isString |-> TRUE, chars |-> s]
NotAString == [isString |-> FALSE, chars |-> <<>>]

IsSpace(c) == c = " "

RECURSIVE trimStart(_)
trimStart(s) ==
    IF s # <<>> /\ IsSpace(Head(s)) THEN trimStart(Tail(s)) ELSE s

RECURSIVE trimEnd(_)
trimEnd(s) ==
    IF s # <<>> /\ IsSpace(s[Len(s)]) THEN trimEnd(SubSeq(s, 1, Len(s) - 1)) ELSE s

trim(s) == trimEnd(trimStart(s))

(* typeof parsed.f === "string" ? parsed.f.trim() : ""                     *)
Field(v) == IF v.isString THEN trim(v.chars) ELSE <<>>

LowerOf(c) ==
    CASE c = "A" -> "a"
      [] c = "B" -> "b"
      [] c = "J" -> "j"
      [] OTHER -> c

toLowerCase(s) == [i \in 1 .. Len(s) |-> LowerOf(s[i])]

(* /^[^\s@]+@[^\s@]+\.[^\s@]{2,}$/i                                        *)
Plain(s, a, b) == \A k \in a .. b : ~IsSpace(s[k]) /\ s[k] # "@"

emailRegexTest(s) ==
    \E i \in 1 .. Len(s) : \E j \in 1 .. Len(s) :
        /\ s[i] = "@"
        /\ s[j] = "."
        /\ i >= 2
        /\ j >= i + 2
        /\ Len(s) - j >= 2
        /\ Plain(s, 1, i - 1)
        /\ Plain(s, i + 1, Len(s))

(* ------------------------- request bodies ------------------------------ *)
(* A body as it is sent: its length in bytes of UTF-8, whether a two-byte  *)
(* character straddles a chunk boundary of the stream (split = 1), what    *)
(* JSON.parse makes of the text ("malformed": throws, "null": the value    *)
(* null, "value": any other value) and the three fields the handler reads. *)
Body(bytes, split, json, name, email, company) ==
    [bytes |-> bytes, split |-> split, json |-> json,
     name |-> name, email |-> email, company |-> company]

sJo == <<"J", "o">>
sJ == <<" ", "J", " ">>
sGoodEmail == <<"a", "@", "b", ".", "c", "o">>
sPaddedEmail == <<" ", "A", "@", "B", ".", "c", "o", " ">>
sBadEmail == <<"n", "o", "t", "-", "a", "n", "-", "e", "m", "a", "i", "l">>
sBot == <<"x">>
sBlank == <<" ">>

Bodies ==
    { Body(0, 0, "malformed", NotAString, NotAString, NotAString),
      Body(SmallBytes, 0, "malformed", NotAString, NotAString, NotAString),
      Body(SmallBytes, 0, "null", NotAString, NotAString, NotAString),
      Body(SmallBytes, 0, "value", NotAString, NotAString, NotAString),
      Body(SmallBytes, 0, "value", Str(sJo), Str(sGoodEmail), Str(<<>>)),
      Body(SmallBytes, 0, "value", Str(sJo), Str(sPaddedEmail), Str(sBlank)),
      Body(SmallBytes, 0, "value", Str(sJo), Str(sGoodEmail), Str(sBot)),
      Body(SmallBytes, 0, "value", NotAString, Str(sBadEmail), Str(sBot)),
      Body(SmallBytes, 0, "value", Str(sJo), Str(sBadEmail), NotAString),
      Body(SmallBytes, 0, "value", Str(sJ), Str(sGoodEmail), NotAString),
      Body(MAX_BODY_SIZE, 0, "value", Str(sJo), Str(sGoodEmail), NotAString),
      Body(MAX_BODY_SIZE, 1, "value", Str(sJo), Str(sGoodEmail), NotAString),
      Body(MAX_BODY_SIZE + 1, 0, "value", Str(sJo), Str(sGoodEmail), NotAString),
      Body(MAX_BODY_SIZE + 1, 0, "value", Str(sJo), Str(sGoodEmail), Str(sBot)) }

(* Buffer.byteLength(rawBody, "utf8") as each variant measures it: the     *)
(* functions get the body as one string; the servers append each chunk's   *)
(* own decoding, where the two halves of a split two-byte character become *)
(* two three-byte replacement characters.                                  *)
byteLength(v, b) ==
    IF v \in ServerVariants THEN b.bytes + 4 * b.split ELSE b.bytes

(* ------------------------- rate limiter -------------------------------- *)
current(buckets, ip) == IF ip \in DOMAIN buckets THEN buckets[ip] ELSE <<>>

(* A timestamp exactly one window old wrongly kept.                        *)
InWindowInclusive(T, timestamp) == T - timestamp <= RATE_WINDOW_MS

InWindow(T, timestamp) == T - timestamp < RATE_WINDOW_MS

RECURSIVE filter(_, _)
filter(seq, T) ==
    IF seq = <<>> THEN <<>>
    ELSE IF InWindow(T, Head(seq)) THEN <<Head(seq)>> \o filter(Tail(seq), T)
         ELSE filter(Tail(seq), T)

(* The timestamp of a refused request is not recorded.                    *)
withinWindowIfAllowed(buckets, ip, T) ==
    IF Len(filter(current(buckets, ip), T)) >= RATE_MAX_REQUESTS
    THEN filter(current(buckets, ip), T)
    ELSE Append(filter(current(buckets, ip), T), T)

withinWindow(buckets, ip, T) == Append(filter(current(buckets, ip), T), T)

(* A stale write: the stored sequence of a known client is not replaced.   *)
setIfAbsent(buckets, ip, value) ==
    IF ip \in DOMAIN buckets THEN buckets
    ELSE [k \in DOMAIN buckets \cup {ip} |-> IF k = ip THEN value ELSE buckets[k]]

set(buckets, ip, value) ==
    [k \in DOMAIN buckets \cup {ip} |-> IF k = ip THEN value ELSE buckets[k]]

(* The threshold compared the wrong way round: the fifth is refused.       *)
OverQuotaEarly(n) == n >= RATE_MAX_REQUESTS

(* The threshold off by one: a sixth is let through.                       *)
OverQuotaLate(n) == n > RATE_MAX_REQUESTS + 1

OverQuota(n) == n > RATE_MAX_REQUESTS

isRateLimited(buckets, ip, T) == OverQuota(Len(withinWindow(buckets, ip, T)))

(* ------------------------- responses ----------------------------------- *)
Payload(ok, coupon, error) == [ok |-> ok, coupon |-> coupon, error |-> error]
EmptyPayload == Payload("absent", "", "")
Failure(error) == Payload("false", "", error)
OkPlain == Payload("true", "", "")
OkCoupon == Payload("true", "BEST10", "")

Pending == -1
FetchFailed == 0

IdleReq ==
    [pc |-> "idle", method |-> "POST", ip |-> "unknown",
     body |-> [bytes |-> 0, split |-> 0, json |-> "malformed", name |-> NotAString,
               email |-> NotAString, company |-> NotAString],
     checked |-> FALSE, limited |-> FALSE, parseAttempted |-> FALSE,
     lead |-> <<>>, calls |-> <<>>,
     status |-> 0, payload |-> EmptyPayload]

sendJson(r, statusCode, payload) ==
    [r EXCEPT !.pc = "done", !.status = statusCode, !.payload = payload]

(* An exception that escapes handlePromoLead: the servers' request         *)
(* listener answers 500; the functions' handler promise rejects.           *)
Escapes(r, v) ==
    IF v \in ServerVariants
    THEN sendJson(r, 500, Failure("Internal server error."))
    ELSE [r EXCEPT !.pc = "threw"]

(* ------------------------- CRM forward --------------------------------- *)
ResponseOk(status) == status >= 200 /\ status <= 299

CrmStatuses == {200, 201, 404, 500}
CrmOutcomes == CrmStatuses \cup {FetchFailed}

Call(method, email) == [method |-> method, email |-> email, status |-> Pending]

(* callHubSpot: the request goes out and the handler awaits the reply.     *)
callHubSpot(r, method, nextPc) ==
    [r EXCEPT !.pc = nextPc,
              !.calls = Append(@, Call(method, r.lead[1].email))]

Answered(r, outcome) == [r EXCEPT !.calls[Len(r.calls)].status = outcome]

(* Not-found treated like any other failure: no create is attempted.      *)
AfterPatchFatal404(outcome) ==
    IF outcome # FetchFailed /\ ResponseOk(outcome) THEN "updated" ELSE "throw"

(* Every failed update falls through to the create.                        *)
AfterPatchFallsThrough(outcome) ==
    IF outcome = FetchFailed THEN "throw"
    ELSE IF ResponseOk(outcome) THEN "updated"
    ELSE "create"

(* What syncLeadToHubSpot does with the reply to the PATCH.                *)
AfterPatch(outcome) ==
    IF outcome = FetchFailed THEN "throw"
    ELSE IF ResponseOk(outcome) THEN "updated"
    ELSE IF outcome # 404 THEN "throw"
    ELSE "create"

(* The reply to the create is not looked at.                               *)
AfterCreateLenient(outcome) == "created"

(* What syncLeadToHubSpot does with the reply to the POST.                 *)
AfterCreate(outcome) ==
    IF outcome = FetchFailed THEN "throw"
    ELSE IF ResponseOk(outcome) THEN "created"
    ELSE "throw"

SyncFailed(r) ==
    sendJson(r, 502, Failure("Unable to save your lead right now. Please try again."))

Succeeded(r) == sendJson(r, 200, OkCoupon)

(* ------------------------- lead intake --------------------------------- *)
FieldOf(b, f) == IF b.bytes = 0 THEN <<>> ELSE Field(b[f])

Lead(v, b, ip) ==
    [name |-> IF v \in NameVariants THEN FieldOf(b, "name") ELSE <<>>,
     email |-> toLowerCase(FieldOf(b, "email")),
     ip |-> ip]

(* The token is not looked at: the PATCH goes out without one.             *)
ForwardAlways(r, v, token) ==
    IF v \notin CrmVariants
    THEN Succeeded(r)
    ELSE callHubSpot(r, "PATCH", "patch")

(* The forward of a logged lead: skipped without a token (and absent from  *)
(* the variants without CRM), otherwise the PATCH goes out.                *)
Forward(r, v, token) ==
    IF v \notin CrmVariants \/ ~token
    THEN Succeeded(r)
    ELSE callHubSpot(r, "PATCH", "patch")

(* The parse error is swallowed and the body read as {}.                   *)
ParseFailsNever(b) == FALSE

(* rawBody ? JSON.parse(rawBody) : {} throws.                              *)
ParseFails(b) == b.bytes # 0 /\ b.json = "malformed"

(* The honeypot is not looked at.                                          *)
IsHoneypotNever(b) == FALSE

(* if (company): the hidden field came back filled in.                     *)
IsHoneypot(b) == FieldOf(b, "company") # <<>>

(* From JSON.parse to the first await after it, or to the response.        *)
Intake(r, v, token) ==
    LET b == r.body
        p == [r EXCEPT !.parseAttempted = (b.bytes # 0)]
    IN  IF ParseFails(b)
        THEN sendJson(p, 400, Failure("Invalid request body."))
        ELSE IF b.bytes # 0 /\ b.json = "null"
        THEN Escapes(p, v)
        ELSE IF IsHoneypot(b)
        THEN sendJson(p, 200, OkPlain)
        ELSE IF v \in NameVariants /\ Len(FieldOf(b, "name")) < 2
        THEN sendJson(p, 400, Failure("Please send your name."))
        ELSE IF ~emailRegexTest(FieldOf(b, "email"))
        THEN sendJson(p, 400, Failure("Please send a valid email address."))
        ELSE Forward([p EXCEPT !.lead = <<Lead(v, b, r.ip)>>], v, token)

TooLarge(v, b) == byteLength(v, b) > MAX_BODY_SIZE

PayloadTooLarge(r) == sendJson(r, 413, Failure("Payload too large."))

(* What follows the rate check of a POST without an await.                 *)
AfterCheck(r, v, token, limited) ==
    LET c == [r EXCEPT !.checked = TRUE]
    IN  IF limited
        THEN sendJson([c EXCEPT !.limited = TRUE], 429,
                      Failure("Too many requests. Try again later."))
        ELSE IF v \in ServerVariants
        THEN [c EXCEPT !.pc = "body"]
        ELSE Intake(c, v, token)

(* TRUE when the request gets as far as isRateLimited.                     *)
ReachesCheck(v, method, b) ==
    /\ method = "POST"
    /\ (v \in ServerVariants \/ ~TooLarge(v, b))

handlePromoLead(r, v, token, buckets, T) ==
    IF r.method = "OPTIONS" THEN sendJson(r, 204, EmptyPayload)
    ELSE IF r.method # "POST" THEN sendJson(r, 405, Failure("Method not allowed."))
    ELSE IF ~ReachesCheck(v, r.method, r.body) THEN PayloadTooLarge(r)
    ELSE AfterCheck(r, v, token, isRateLimited(buckets, r.ip, T))

(* ------------------------- input universes ----------------------------- *)
EmptyBody == Body(0, 0, "malformed", NotAString, NotAString, NotAString)
LeadBody == Body(SmallBytes, 0, "value", Str(sJo), Str(sGoodEmail), Str(<<>>))

Request(method, b) == [method |-> method, body |-> b]

SlotsOf(sc) == IF sc = "overlap" THEN Slots ELSE {"a"}
IpsOf(sc) == IF sc = "clients" THEN ClientIps ELSE {"10.0.0.1"}
RequestsOf(sc) ==
    IF sc = "intake"
    THEN {Request("POST", b) : b \in Bodies}
         \cup {Request(m, EmptyBody) : m \in Methods \ {"POST"}}
    ELSE {Request("POST", LeadBody)}
CrmOutcomesOf(sc) == IF sc = "intake" THEN CrmOutcomes ELSE {200}

(* ------------------------- the state machine --------------------------- *)
ChecksMade == Len(history["10.0.0.1"]) + Len(history["unknown"])

Init ==
    /\ scene \in Scenes
    /\ variant \in Variants
    /\ HUBSPOT_ACCESS_TOKEN \in BOOLEAN
    /\ (variant \notin CrmVariants => HUBSPOT_ACCESS_TOKEN = FALSE)
    /\ now = 0
    /\ requestBuckets = <<>>
    /\ req = [s \in Slots |-> IdleReq]
    /\ history = [ip \in ClientIps |-> <<>>]

(* A request arrives and its handler runs to its first await or response.  *)
Arrive(s, method, ip, b) ==
    /\ req[s].pc = "idle"
    /\ LET r == [IdleReq EXCEPT !.method = method, !.ip = ip, !.body = b]
           reaches == ReachesCheck(variant, method, b)
       IN  /\ reaches => ChecksMade < MaxChecks
           /\ req' = [req EXCEPT ![s] =
                        handlePromoLead(r, variant, HUBSPOT_ACCESS_TOKEN, requestBuckets, now)]
           /\ requestBuckets' =
                IF reaches
                THEN set(requestBuckets, ip, withinWindow(requestBuckets, ip, now))
                ELSE requestBuckets
           /\ history' =
                IF reaches
                THEN [history EXCEPT ![ip] =
                        Append(@, [at |-> now,
                                   limited |-> isRateLimited(requestBuckets, ip, now)])]
                ELSE history
    /\ UNCHANGED <<scene, variant, HUBSPOT_ACCESS_TOKEN, now>>

(* parseBody settles: the body has been read, or has outgrown the ceiling. *)
BodyRead(s) ==
    /\ req[s].pc = "body"
    /\ req' = [req EXCEPT ![s] =
                 IF TooLarge(variant, req[s].body)
                 THEN PayloadTooLarge(req[s])
                 ELSE Intake(req[s], variant, HUBSPOT_ACCESS_TOKEN)]
    /\ UNCHANGED <<scene, variant, HUBSPOT_ACCESS_TOKEN, now, requestBuckets, history>>

(* The CRM answers the PATCH (or the fetch fails).                         *)
PatchReply(s, outcome) ==
    /\ req[s].pc = "patch"
    /\ LET r == Answered(req[s], outcome)
           step == AfterPatch(outcome)
       IN  req' = [req EXCEPT ![s] =
                     IF step = "updated" THEN Succeeded(r)
                     ELSE IF step = "create" THEN callHubSpot(r, "POST", "post")
                     ELSE SyncFailed(r)]
    /\ UNCHANGED <<scene, variant, HUBSPOT_ACCESS_TOKEN, now, requestBuckets, history>>

(* The CRM answers the POST (or the fetch fails).                          *)
PostReply(s, outcome) ==
    /\ req[s].pc = "post"
    /\ LET r == Answered(req[s], outcome)
       IN  req' = [req EXCEPT ![s] =
                     IF AfterCreate(outcome) = "created" THEN Succeeded(r)
                     ELSE SyncFailed(r)]
    /\ UNCHANGED <<scene, variant, HUBSPOT_ACCESS_TOKEN, now, requestBuckets, history>>

(* The exchange is over; the slot is free for the next request.            *)
Finish(s) ==
    /\ req[s].pc \in {"done", "threw"}
    /\ req' = [req EXCEPT ![s] = IdleReq]
    /\ UNCHANGED <<scene, variant, HUBSPOT_ACCESS_TOKEN, now, requestBuckets, history>>

(* Time passes.                                                            *)
Tick ==
    /\ now + ClockStep <= MaxNow
    /\ now' = now + ClockStep
    /\ UNCHANGED <<scene, variant, HUBSPOT_ACCESS_TOKEN, requestBuckets, req, history>>

Next ==
    \/ \E s \in SlotsOf(scene), ip \in IpsOf(scene), q \in RequestsOf(scene) :
          Arrive(s, q.method, ip, q.body)
    \/ \E s \in Slots : BodyRead(s)
    \/ \E s \in Slots, outcome \in CrmOutcomesOf(scene) : PatchReply(s, outcome)
    \/ \E s \in Slots, outcome \in CrmOutcomesOf(scene) : PostReply(s, outcome)
    \/ \E s \in Slots : Finish(s)
    \/ Tick

Spec == Init /\ [][Next]_vars

(* ======================================================================= *)
(* Properties                                                              *)
(* ======================================================================= *)
Other(ip) == CHOOSE o \in ClientIps : o # ip

(* The step in which slot s takes a request that reaches isRateLimited.    *)
CheckStep(s) ==
    /\ req[s].pc = "idle"
    /\ req'[s].pc # "idle"
    /\ ReachesCheck(variant, req'[s].method, req'[s].body)

Answered429(r) == r.pc = "done" /\ r.status = 429

(* The last n entries of a client's record of checks.                      *)
LastChecks(ip, n) == {k \in DOMAIN history[ip] : k > Len(history[ip]) - n}

(* C1: for every client, whatever the other clients did: none of its first *)
(* five POSTs that reach the rate check is limited, and a POST of the      *)
(* client is answered 429 whenever its five previous checks all lie less   *)
(* than 15 minutes before it.                                              *)
C1_SixthInWindowRejected ==
    [][\A s \in Slots :
         CheckStep(s) =>
           LET ip == req'[s].ip
               n == Len(history[ip])
           IN  /\ n < RATE_MAX_REQUESTS => ~Answered429(req'[s])
               /\ ( /\ n >= RATE_MAX_REQUESTS
                    /\ \A k \in LastChecks(ip, RATE_MAX_REQUESTS) :
                          now - history[ip][k].at < RATE_WINDOW_MS )
                  => Answered429(req'[s])
               /\ history'[Other(ip)] = history[Other(ip)]
               /\ current(requestBuckets', Other(ip)) = current(requestBuckets, Other(ip))
      ]_vars

(* C1 witness: with two clients active, one client's sixth check inside    *)
(* the window has just been answered 429.                                  *)
C1_Witness ==
    \E s \in Slots :
        /\ Answered429(req[s])
        /\ Len(history[req[s].ip]) = RATE_MAX_REQUESTS + 1
        /\ \A k \in DOMAIN history[req[s].ip] : now - history[req[s].ip][k].at < RATE_WINDOW_MS
        /\ Len(history[Other(req[s].ip)]) > 0

(* The checks of a client that passed the limiter with a timestamp in the  *)
(* half-open interval [t, t + 15 min).                                     *)
PassedIn(ip, t) ==
    {k \in DOMAIN history[ip] :
        /\ ~history[ip][k].limited
        /\ t <= history[ip][k].at
        /\ history[ip][k].at < t + RATE_WINDOW_MS}

(* The intervals worth looking at: those that start at a check and those   *)
(* that end just after one.                                                *)
IntervalStarts(ip) ==
    {history[ip][k].at : k \in DOMAIN history[ip]}
    \cup {history[ip][k].at - RATE_WINDOW_MS + 1 : k \in DOMAIN history[ip]}

(* C2: for every client, at most five of its requests that passed the      *)
(* limiter have timestamps inside any one half-open 15-minute interval.    *)
C2_AtMostFivePassPerWindow ==
    \A ip \in ClientIps : \A t \in IntervalStarts(ip) :
        Cardinality(PassedIn(ip, t)) <= RATE_MAX_REQUESTS

(* C2 witness: a client filled a window with five passed requests, was     *)
(* refused one, and passed again in a later window.                        *)
C2_Witness ==
    \E ip \in ClientIps :
        /\ \E t \in IntervalStarts(ip) : Cardinality(PassedIn(ip, t)) = RATE_MAX_REQUESTS
        /\ \E k \in DOMAIN history[ip] : history[ip][k].limited
        /\ Cardinality({k \in DOMAIN history[ip] : ~history[ip][k].limited}) > RATE_MAX_REQUESTS

(* The recorded timestamps of a client that are less than 15 minutes old.  *)
Fresh(ip) ==
    {k \in DOMAIN current(requestBuckets, ip) :
        now - current(requestBuckets, ip)[k] < RATE_WINDOW_MS}

(* C8: a POST that arrives when fewer than five of the client's recorded   *)
(* timestamps are less than 15 minutes old is not rate-limited, and the    *)
(* check leaves no expired timestamp in the bucket; a client whose last    *)
(* request was answered 429 at least 15 minutes ago is accepted.           *)
C8_OutsideWindowAccepted ==
    [][\A s \in Slots :
         CheckStep(s) =>
           LET ip == req'[s].ip
               n == Len(history[ip])
           IN  /\ Cardinality(Fresh(ip)) < RATE_MAX_REQUESTS => ~Answered429(req'[s])
               /\ \A k \in DOMAIN requestBuckets'[ip] :
                     now - requestBuckets'[ip][k] < RATE_WINDOW_MS
               /\ ( /\ n >= 1
                    /\ history[ip][n].limited
                    /\ now - history[ip][n].at >= RATE_WINDOW_MS )
                  => ~Answered429(req'[s])
      ]_vars

(* C8 witness: a client was refused, came back a full window later, was    *)
(* let through, and its bucket holds that one timestamp only.              *)
C8_Witness ==
    \E ip \in ClientIps :
        LET n == Len(history[ip])
        IN  /\ n >= 2
            /\ history[ip][n - 1].limited
            /\ ~history[ip][n].limited
            /\ history[ip][n].at - history[ip][n - 1].at >= RATE_WINDOW_MS
            /\ requestBuckets[ip] = <<history[ip][n].at>>

(* C10 as stated: the stored bucket is the previous timestamps t with      *)
(* T - 15 min <= t <= T, in order, followed by T.                          *)
C10_ClosedWindowStored ==
    [][\A s \in Slots :
         CheckStep(s) =>
           LET ip == req'[s].ip
               kept == SelectSeq(current(requestBuckets, ip),
                                 LAMBDA t : now - RATE_WINDOW_MS <= t /\ t <= now)
           IN  /\ requestBuckets'[ip] = Append(kept, now)
               /\ Answered429(req'[s]) <=> Len(requestBuckets'[ip]) > RATE_MAX_REQUESTS
      ]_vars

(* C10 amended: the stored bucket is the previous timestamps t with        *)
(* T - 15 min < t (a timestamp exactly 15 minutes old is dropped), in      *)
(* their previous order, followed by T; the check reports limited exactly  *)
(* when that sequence has more than 5 entries; an unknown client starts    *)
(* from the empty sequence.                                                *)
C10_OpenWindowStored ==
    [][\A s \in Slots :
         CheckStep(s) =>
           LET ip == req'[s].ip
               kept == SelectSeq(current(requestBuckets, ip),
                                 LAMBDA t : now - RATE_WINDOW_MS < t)
           IN  /\ requestBuckets'[ip] = Append(kept, now)
               /\ Answered429(req'[s]) <=> Len(requestBuckets'[ip]) > RATE_MAX_REQUESTS
               /\ ip \notin DOMAIN requestBuckets => requestBuckets'[ip] = <<now>>
      ]_vars

(* C10 witness: a check has just stored a bucket from which a timestamp    *)
(* exactly 15 minutes old was dropped and a younger one kept before T.     *)
C10_Witness ==
    \E ip \in DOMAIN requestBuckets :
        LET n == Len(history[ip])
            b == requestBuckets[ip]
        IN  /\ n >= 3
            /\ history[ip][n].at = now
            /\ \E k \in 1 .. n - 1 : history[ip][k].at = now - RATE_WINDOW_MS
            /\ Len(b) >= 2
            /\ b[1] > now - RATE_WINDOW_MS
            /\ b[1] < now
            /\ b[Len(b)] = now

(* The exchanges that carry a POST.                                        *)
Posts == {s \in Slots : req[s].pc # "idle" /\ req[s].method = "POST"}
Over(r) == r.pc \in {"done", "threw"}

(* The body is JSON with a company string that is not the empty string.    *)
HoneypotSent(b) ==
    b.bytes # 0 /\ b.json = "value" /\ b.company.isString /\ b.company.chars # <<>>

(* The same, and the string is more than white space.                      *)
HoneypotFilled(b) == HoneypotSent(b) /\ trim(b.company.chars) # <<>>

(* C3 as stated: a POST with a non-empty honeypot field always returns     *)
(* 200 {ok:true} without coupon and makes no CRM call.                     *)
C3_HoneypotAlways200 ==
    \A s \in Posts :
        HoneypotSent(req[s].body) =>
            /\ req[s].calls = <<>>
            /\ Over(req[s]) => req[s].status = 200 /\ req[s].payload = OkPlain

(* C3 amended: a POST whose company field is a string with more than white *)
(* space in it never gets a coupon, a lead or a CRM call; unless it is     *)
(* refused for its size (413) or by the rate limiter (429) it is answered  *)
(* 200 {ok:true}, whatever its name and email.                             *)
C3_HoneypotSilentSuccess ==
    \A s \in Posts :
        HoneypotFilled(req[s].body) =>
            /\ req[s].calls = <<>>
            /\ req[s].lead = <<>>
            /\ req[s].payload.coupon = ""
            /\ Over(req[s]) =>
                 /\ req[s].pc = "done"
                 /\ req[s].status \in {200, 413, 429}
                 /\ req[s].status = 429 => req[s].limited
                 /\ req[s].status = 413 => TooLarge(variant, req[s].body)
                 /\ req[s].status = 200 => req[s].payload = OkPlain

(* C3 witness: with the CRM configured, an otherwise valid lead with the   *)
(* honeypot filled in was answered 200 {ok:true}.                          *)
C3_Witness ==
    \E s \in Posts :
        /\ HoneypotFilled(req[s].body)
        /\ req[s].body.name = Str(sJo)
        /\ req[s].body.email = Str(sGoodEmail)
        /\ variant \in CrmVariants
        /\ HUBSPOT_ACCESS_TOKEN
        /\ req[s].status = 200
        /\ req[s].payload = OkPlain
        /\ Len(history[req[s].ip]) > 1

(* C4 as stated: every POST with a body of more than 16384 bytes is        *)
(* answered 413 and never parsed; a body of exactly 16384 bytes is not     *)
(* answered 413.                                                           *)
C4_OversizeAlways413 ==
    \A s \in Posts :
        /\ req[s].body.bytes > MAX_BODY_SIZE =>
             /\ ~req[s].parseAttempted
             /\ Over(req[s]) => req[s].status = 413
        /\ req[s].body.bytes = MAX_BODY_SIZE => req[s].status # 413

(* A lead of this exchange went to the CRM forward with a token set.       *)
Forwarded(r) == r.lead # <<>> /\ variant \in CrmVariants /\ HUBSPOT_ACCESS_TOKEN

Coupon200(r) == r.pc = "done" /\ r.status = 200 /\ r.payload = OkCoupon

Retry502(r) ==
    /\ r.pc = "done"
    /\ r.status = 502
    /\ r.payload = Failure("Unable to save your lead right now. Please try again.")

FailureStatus(status) == status \in CrmStatuses /\ ~ResponseOk(status)

(* C5: for a valid lead with the CRM configured the first call is the      *)
(* PATCH; if it answers 2xx that is the only call and the answer is 200    *)
(* with the coupon; if it answers 404 the second and last call is the      *)
(* POST, and if that answers 2xx the answer is 200 with the coupon.        *)
C5_UpsertUpdateThenCreate ==
    \A s \in Posts :
        Forwarded(req[s]) =>
            LET calls == req[s].calls
            IN  /\ Len(calls) \in {1, 2}
                /\ calls[1].method = "PATCH"
                /\ ResponseOk(calls[1].status) =>
                     Len(calls) = 1 /\ Coupon200(req[s])
                /\ calls[1].status = 404 =>
                     /\ Len(calls) = 2
                     /\ calls[2].method = "POST"
                     /\ ResponseOk(calls[2].status) => Coupon200(req[s])

(* C5 witness: PATCH answered 404, POST answered 201, the lead got its     *)
(* coupon.                                                                 *)
C5_Witness ==
    \E s \in Posts :
        /\ Forwarded(req[s])
        /\ Len(req[s].calls) = 2
        /\ req[s].calls[1].status = 404
        /\ req[s].calls[2].status = 201
        /\ Coupon200(req[s])

(* C6: for a valid lead with the CRM configured, a PATCH answered with a   *)
(* failure status other than 404 ends the request with 502, the generic    *)
(* retry-later message, no coupon and that one call only; a PATCH answered *)
(* 404 followed by a POST answered with a failure status ends it with 502  *)
(* after exactly two calls.                                                *)
C6_CrmFailureIs502 ==
    \A s \in Posts :
        Forwarded(req[s]) =>
            LET calls == req[s].calls
            IN  /\ (FailureStatus(calls[1].status) /\ calls[1].status # 404) =>
                     Len(calls) = 1 /\ Retry502(req[s])
                /\ ( /\ calls[1].status = 404
                     /\ Len(calls) >= 2
                     /\ FailureStatus(calls[2].status) ) =>
                     Len(calls) = 2 /\ Retry502(req[s])

(* C6 witness: PATCH answered 500, the request ended 502 after one call.   *)
C6_Witness ==
    \E s \in Posts :
        /\ Forwarded(req[s])
        /\ Len(req[s].calls) = 1
        /\ req[s].calls[1].method = "PATCH"
        /\ req[s].calls[1].status = 500
        /\ Retry502(req[s])

(* The text of the body is not JSON.                                       *)
NotParseable(b) == b.bytes = 0 \/ b.json = "malformed"

InvalidBody400(r) ==
    r.pc = "done" /\ r.status = 400 /\ r.payload = Failure("Invalid request body.")

(* A POST that was neither rate-limited nor refused for its size.          *)
Admitted(r) == Over(r) /\ ~r.limited /\ r.status # 413

(* C7 as stated: every non-limited POST within the size ceiling whose body *)
(* is not parseable as JSON is answered 400 "Invalid request body."; no    *)
(* lead is built and no CRM call made.                                     *)
C7_UnparseableIsInvalidBody ==
    \A s \in Posts :
        (Admitted(req[s]) /\ NotParseable(req[s].body)) =>
            InvalidBody400(req[s]) /\ req[s].lead = <<>> /\ req[s].calls = <<>>

(* C7 amended: every non-limited POST within the size ceiling whose body   *)
(* is not empty and not parseable as JSON is answered 400 "Invalid request *)
(* body."; an empty body is read as {} and answered 400 by the field       *)
(* validation; in both cases no lead is built and no CRM call made.        *)
C7_MalformedIsInvalidBody ==
    \A s \in Posts :
        (Admitted(req[s]) /\ NotParseable(req[s].body)) =>
            /\ req[s].lead = <<>>
            /\ req[s].calls = <<>>
            /\ req[s].pc = "done"
            /\ req[s].status = 400
            /\ req[s].body.bytes # 0 => InvalidBody400(req[s])
            /\ req[s].body.bytes = 0 =>
                 req[s].payload \in {Failure("Please send your name."),
                                     Failure("Please send a valid email address.")}

(* C7 witness: a malformed body was answered 400 "Invalid request body."   *)
C7_Witness ==
    \E s \in Posts :
        /\ req[s].body.bytes # 0
        /\ req[s].body.json = "malformed"
        /\ req[s].parseAttempted
        /\ InvalidBody400(req[s])

(* No call of the forward failed: every call but a PATCH answered 404 was  *)
(* answered 2xx.                                                           *)
ForwardDidNotFail(r) ==
    \A k \in DOMAIN r.calls :
        \/ ResponseOk(r.calls[k].status)
        \/ r.calls[k].method = "PATCH" /\ r.calls[k].status = 404 /\ k < Len(r.calls)

ArriveStep(s) == req[s].pc = "idle" /\ req'[s].pc # "idle"

Refused(r) == r.pc = "done" /\ r.status \in {204, 405, 413}

(* C11: the checks short-circuit in the order method, body size, rate      *)
(* limiter: a request answered 204, 405 or 413 has made no rate check and  *)
(* leaves every client's bucket as it was, and an oversized POST is        *)
(* answered 413 also when its client is over its quota.                    *)
C11_SizeCheckBeforeRateLimiter ==
    [][\A s \in Slots :
         /\ (ArriveStep(s) /\ Refused(req'[s])) => requestBuckets' = requestBuckets
         /\ Refused(req'[s]) => ~req'[s].checked
         /\ ( /\ req'[s].pc = "done"
              /\ req'[s].method = "POST"
              /\ req'[s].body.bytes > MAX_BODY_SIZE ) => req'[s].status = 413
      ]_vars

(* The earlier checks of a client that are less than 15 minutes old, from  *)
(* the record of all checks, whether their requests are answered or still  *)
(* in flight.                                                              *)
EarlierInWindow(ip) ==
    {k \in DOMAIN history[ip] : now - history[ip][k].at < RATE_WINDOW_MS}

InFlight(r) == r.pc \in {"body", "patch", "post"}

(* C12: with requests interleaved at their awaits no bucket update is      *)
(* lost: a rate check stores one timestamp more than the client's earlier  *)
(* checks inside the window, those of requests still in flight included,   *)
(* and is limited exactly when five or more such checks came before it.    *)
C12_NoLostBucketUpdate ==
    [][\A s \in Slots :
         CheckStep(s) =>
           LET ip == req'[s].ip
               seen == EarlierInWindow(ip)
           IN  /\ Len(requestBuckets'[ip]) = Cardinality(seen) + 1
               /\ \A k \in seen :
                     \E j \in 1 .. Len(requestBuckets'[ip]) - 1 :
                         requestBuckets'[ip][j] = history[ip][k].at
               /\ requestBuckets'[ip][Len(requestBuckets'[ip])] = now
               /\ Answered429(req'[s]) <=> Cardinality(seen) >= RATE_MAX_REQUESTS
               /\ \A t \in Slots \ {s} : req'[t] = req[t]
      ]_vars

(* C12 witness: two requests of one client overlap: the sixth check of the *)
(* window was refused while an earlier request was still awaiting its body *)
(* or the CRM.                                                             *)
C12_Witness ==
    \E s \in Slots : \E t \in Slots \ {s} :
        /\ InFlight(req[s])
        /\ req[s].ip = req[t].ip
        /\ Answered429(req[t])
        /\ Cardinality(EarlierInWindow(req[t].ip)) = RATE_MAX_REQUESTS + 1

(* C13: every rate check appends its own timestamp, allowed or limited, so *)
(* refused requests count toward the quota: a check made while at least    *)
(* five timestamps of the client lie inside the trailing 15 minutes is     *)
(* limited, the stored bucket grows past the threshold, and no key of the  *)
(* map is ever removed.                                                    *)
C13_LimitedChecksCount ==
    [][/\ DOMAIN requestBuckets \subseteq DOMAIN requestBuckets'
       /\ \A s \in Slots :
            CheckStep(s) =>
              LET ip == req'[s].ip
                  kept == filter(current(requestBuckets, ip), now)
              IN  /\ requestBuckets'[ip] = Append(kept, now)
                  /\ Len(kept) >= RATE_MAX_REQUESTS => Answered429(req'[s])
                  /\ Answered429(req'[s]) =>
                        Len(requestBuckets'[ip]) > RATE_MAX_REQUESTS
      ]_vars

(* C13 witness: a client refused twice in a row: its bucket holds the five *)
(* allowed timestamps and those of both refused requests.                  *)
C13_Witness ==
    \E ip \in DOMAIN requestBuckets :
        /\ Len(requestBuckets[ip]) = RATE_MAX_REQUESTS + 2
        /\ Len(history[ip]) >= RATE_MAX_REQUESTS + 2
        /\ history[ip][Len(history[ip])].limited
        /\ history[ip][Len(history[ip]) - 1].limited

(* C14: every invocation, whatever its method and body (the JSON values    *)
(* that are not objects included), completes with one response whose       *)
(* status is one of 200, 204, 400, 405, 413, 429, 500, 502; the handler    *)
(* never throws or rejects.                                                *)
C14_AlwaysOneResponse ==
    \A s \in Slots :
        /\ req[s].pc # "threw"
        /\ req[s].pc = "done" => req[s].status \in {200, 204, 400, 405, 413, 429, 500, 502}

(* A body that passes every check of the intake: a JSON object with the    *)
(* honeypot empty, a name of two characters or more where the variant      *)
(* asks for one, and a valid email.                                        *)
ValidLead(b) ==
    /\ b.bytes # 0
    /\ b.json = "value"
    /\ ~HoneypotFilled(b)
    /\ variant \in NameVariants => b.name.isString /\ Len(trim(b.name.chars)) >= 2
    /\ b.email.isString /\ emailRegexTest(trim(b.email.chars))

(* C15: with no CRM access token configured no CRM call is made and no     *)
(* request is answered 502; a valid lead that is neither rate-limited nor  *)
(* refused for its size is answered 200 with the coupon BEST10.            *)
C15_NoTokenSkipsForward ==
    ~HUBSPOT_ACCESS_TOKEN =>
        \A s \in Posts :
            /\ req[s].calls = <<>>
            /\ req[s].status # 502
            /\ (Admitted(req[s]) /\ ValidLead(req[s].body)) =>
                  /\ Coupon200(req[s])
                  /\ req[s].lead # <<>>

(* C15 witness: a variant with the CRM forward, run without a token, has   *)
(* answered a valid lead with the coupon.                                  *)
C15_Witness ==
    \E s \in Posts :
        /\ variant \in CrmVariants
        /\ ~HUBSPOT_ACCESS_TOKEN
        /\ ValidLead(req[s].body)
        /\ Coupon200(req[s])
        /\ req[s].calls = <<>>

====
